---- MODULE Spec2Model ----
(***************************************************************************)
(* Model of the YouTube search path of the study app:                      *)
(*   app/api/v1/endpoints/videos.py   search_youtube_videos,               *)
(*                                    search_educational_videos,           *)
(*                                    clear_cache, get_cache_stats         *)
(*   app/services/youtube_cache_service.py   YouTubeCacheService           *)
(*   app/services/youtube_service.py         YouTubeService                *)
(* Every await of a handler is one step of the process running it, so      *)
(* concurrent requests interleave at the awaits as they do on the event    *)
(* loop. Redis is one key space shared by all requests.                    *)
(***************************************************************************)
EXTENDS Integers, Sequences, FiniteSets, TLC

VARIABLES redis, procs, api_key, workers, calls, events, returned, admin, codec,
          sync

vars == <<redis, procs, api_key, workers, calls, events, returned, admin, codec, sync>>

None == "None"

(***************************************************************************)
(* Bounds of the model.                                                    *)
(***************************************************************************)
NumProcs == 2
MaxCalls == 3
\* redis faults, expiry ticks and cache management calls that happen in one run
MaxEvents == 1
TickSeconds == 3600
\* items in a sync queue; entries counted in the results of one call
MaxQueue == 3
MaxSyncResults == 3

Procs == 1..NumProcs

(***************************************************************************)
(* Strings are sequences of characters.                                    *)
(***************************************************************************)
LowerChar(c) == IF c = "A" THEN "a" ELSE IF c = "Q" THEN "q" ELSE c

Lower(s) == [i \in DOMAIN s |-> LowerChar(s[i])]

RECURSIVE LStrip(_)
LStrip(s) == IF s # <<>> /\ Head(s) = " " THEN LStrip(Tail(s)) ELSE s

RECURSIVE RStrip(_)
RStrip(s) ==
    IF s # <<>> /\ s[Len(s)] = " " THEN RStrip(SubSeq(s, 1, Len(s) - 1)) ELSE s

Strip(s) == RStrip(LStrip(s))

Contains(s, w) ==
    \E i \in 1..(Len(s) - Len(w) + 1) : SubSeq(s, i, i + Len(w) - 1) = w

QUOTA == <<"q", "u", "o", "t", "a">>
INVALID == <<"i", "n", "v", "a", "l", "i", "d">>

(***************************************************************************)
(* Inputs: the queries a client sends, and the other request parameters.   *)
(***************************************************************************)
Queries == { <<"a">>, <<"b">>, QUOTA, <<" ">> }
EduQueries == { <<"a">> }
MaxResultsSet == { 20 }
PageTokens == { None, "t2" }
\* the queries that are also sent with a page token
PagedQueries == { <<"a">> }
\* the queries of the requests that run concurrently
ConcurrentQueries == { <<"a">>, <<"b">> }
Orders == { "relevance" }

\* SentenceTransformer.encode(query, normalize_embeddings=True): unit vectors,
\* here in the plane and scaled by 5, so that a cosine is a multiple of 1/25.
encode(query) ==
    LET s == Lower(Strip(query)) IN
    CASE s = <<"a">> -> <<5, 0>>
      [] s = <<"b">> -> <<4, 3>>
      [] s = QUOTA -> <<3, 4>>
      [] OTHER -> <<0, -5>>

\* util.cos_sim of two normalized vectors, in units of 1/25.
cos_sim(a, b) == a[1] * b[1] + a[2] * b[2]

default_ttl == 3600
educational_ttl == 7200
prefix == "youtube_search"
\* 0.8 in units of 1/25
similarity_threshold == 20
\* -1.0 in units of 1/25
InitialBestScore == -25
\* redis: a key without expiry
NoExpiry == -1

(***************************************************************************)
(* YouTubeCacheService._generate_cache_key. The md5 digest of the sorted   *)
(* JSON of the parameters is modelled by the parameters themselves (a      *)
(* collision-free digest).                                                 *)
(***************************************************************************)
\* a digest that does not cover the order parameter
md5_NoOrder(params) == [params EXCEPT ![3] = ""]

md5(params) == params

\* the key derived from the query as it was typed, not lower-cased
_generate_cache_key_Raw(query, max_results, page_token, order, is_educational) ==
    LET params == <<is_educational, max_results, order,
                    IF page_token = None THEN "" ELSE page_token,
                    Strip(query)>>
        cache_type == IF is_educational THEN "edu" ELSE "search"
    IN <<prefix, cache_type, md5(params)>>

_generate_cache_key(query, max_results, page_token, order, is_educational) ==
    LET params == <<is_educational, max_results, order,
                    IF page_token = None THEN "" ELSE page_token,
                    Strip(Lower(query))>>
        cache_type == IF is_educational THEN "edu" ELSE "search"
    IN <<prefix, cache_type, md5(params)>>

MetaKey(cache_key) == Append(cache_key, "meta")

\* best_key.decode().replace(":meta", ""): the digest is hexadecimal and the
\* prefix and the category hold no ":meta", so only the suffix goes.
StripMeta(meta_key) ==
    IF meta_key[Len(meta_key)] = "meta"
    THEN SubSeq(meta_key, 1, Len(meta_key) - 1)
    ELSE meta_key

\* redis KEYS f"{prefix}:*:meta"
IsMetaPattern(k) == Len(k) >= 3 /\ k[1] = prefix /\ k[Len(k)] = "meta"

\* redis KEYS f"{prefix}:{pattern}:*" and f"{prefix}:*"
MatchesPattern(k, pattern) ==
    /\ k[1] = prefix
    /\ pattern # None => k[2] = pattern

(***************************************************************************)
(* YouTubeSearchResponse and its JSON form.                                *)
(***************************************************************************)
Response(videos, total_results, next_page_token) ==
    [videos |-> videos, total_results |-> total_results,
     next_page_token |-> next_page_token]

\* model_dump_json with the optional next_page_token left out
model_dump_json_NoToken(r) == <<"json", r.videos, r.total_results, None>>

\* results.model_dump_json()
model_dump_json(r) == <<"json", r.videos, r.total_results, r.next_page_token>>

\* the response rebuilt without its total_results
json_loads_NoTotal(d) == Response(d[2], 0, d[4])

\* YouTubeSearchResponse(**json.loads(cached_data))
json_loads(d) == Response(d[2], d[3], d[4])

\* What the upstream search API answers with on success: the items of the page.
UpstreamPages ==
    { [items |-> <<"v1">>, totalResults |-> 7, nextPageToken |-> "t2"],
      [items |-> <<>>, totalResults |-> 0, nextPageToken |-> None] }

\* search_videos builds the response from the page and the details.
BuildResponse(page, details) ==
    Response([i \in DOMAIN page.items |->
                 [id |-> page.items[i], duration |-> details]],
             page.totalResults, page.nextPageToken)

(***************************************************************************)
(* The key space of redis that the inputs can reach, and its values.       *)
(***************************************************************************)
CacheKeys ==
    { _generate_cache_key(q, m, t, o, FALSE) :
        q \in {x \in Queries : Strip(x) # <<>>}, m \in MaxResultsSet,
        t \in {None}, o \in Orders }
    \cup
    { _generate_cache_key(q, m, t, o, FALSE) :
        q \in PagedQueries, m \in MaxResultsSet, t \in PageTokens, o \in Orders }
    \cup
    { _generate_cache_key(q, m, None, "relevance", TRUE) :
        q \in EduQueries, m \in MaxResultsSet }

AllKeys == CacheKeys \cup { MetaKey(k) : k \in CacheKeys }

Absent == [type |-> "absent"]
NoResponse == [type |-> "none"]
NoPage == [type |-> "none"]
NoKey == <<>>
\* what a key held before redis dropped it when its time to live ran out
ExpiredResponse == [type |-> "expired"]

\* the cache management endpoints: no call of clear_cache or get_cache_stats yet
NoAdmin ==
    [op |-> None, pattern |-> None, fault |-> FALSE, cleared_count |-> 0,
     entries_removed |-> 0,
     total_cached_searches |-> 0, regular_searches |-> 0,
     educational_searches |-> 0]

\* the key codec has not been called
NoCodec == [x |-> <<>>, y |-> <<>>, key_x |-> NoKey, key_y |-> NoKey]

Present(k) == redis[k].type # "absent"

(***************************************************************************)
(* The state of one request handler.                                       *)
(***************************************************************************)
IdleProc ==
    [pc |-> "idle", endpoint |-> None, q |-> <<>>, max_results |-> 0,
     page_token |-> None, order |-> None, is_educational |-> FALSE,
     meta_keys |-> {}, best_key |-> NoKey, best_score |-> InitialBestScore,
     similar_key |-> NoKey, page |-> NoPage, result |-> NoResponse,
     status |-> 0, inner |-> 0,
     \* history of the call, read by the properties only
     source |-> None, exactSeen |-> None, exactData |-> <<>>,
     expected |-> NoResponse, similarSeen |-> None, similarData |-> <<>>,
     hadSimilar |-> FALSE, scanDone |-> FALSE, scanned |-> {},
     similarCalls |-> 0, upstreamCalls |-> 0, searchAttempts |-> 0,
     detailsAttempts |-> 0, quotaAnswers |-> 0, cacheFault |-> FALSE,
     upstream |-> None, upstreamStatus |-> 0, excStatus |-> 0,
     usedKey |-> None, fresh |-> NoResponse, wrote |-> FALSE,
     exactMeta |-> FALSE, similarExpected |-> NoResponse, eventsAtWrite |-> 0,
     faultAt |-> None, lastWriter |-> FALSE]

\* settings.YOUTUBE_API_KEY: the credentials the service is configured with
credentials == <<"YOUTUBE_API_KEY">>

\* YouTubeService.__init__: self.api_key = settings.YOUTUBE_API_KEY
\* SyncService: no call of process_sync_queue made yet, the queue of the user
\* empty
NoSync ==
    [client |-> None, pc |-> "idle", queue |-> <<>>, item_json |-> <<>>,
     bound |-> FALSE, results |-> 0, exc |-> None, lost |-> FALSE]

Init ==
    /\ redis = [k \in AllKeys |-> Absent]
    /\ procs = [p \in Procs |-> IdleProc]
    /\ api_key = credentials[1]
    /\ workers = 1
    /\ calls = 0
    /\ events = 0
    /\ returned = [k \in CacheKeys |-> NoResponse]
    /\ admin = NoAdmin
    /\ sync = NoSync
    /\ codec = NoCodec

CacheKeyOf(r) ==
    _generate_cache_key(r.q, r.max_results, r.page_token, r.order,
                        r.is_educational)

\* a handler takes a step; the answer of an earlier cache management call
\* has been sent
Set(p, r) ==
    /\ procs' = [procs EXCEPT ![p] = r]
    /\ admin' = NoAdmin

\* The handlers' outer "except Exception": an HTTPException raised inside the
\* try block is an Exception, so it is caught and replaced (videos.py 118-123,
\* 187-192).
OuterHandler(inner) == 500

\* raise HTTPException(status_code=inner) inside the handler's try block
Raise(r, inner) ==
    [r EXCEPT !.pc = "done", !.inner = inner, !.status = OuterHandler(inner)]

(***************************************************************************)
(* search_youtube_videos / search_educational_videos: validation.          *)
(***************************************************************************)
Begin(p, endpoint, q, m, t, o, edu) ==
    LET s == Strip(q)
        r == [IdleProc EXCEPT !.endpoint = endpoint,
                              !.q = SubSeq(s, 1, IF Len(s) < 500 THEN Len(s) ELSE 500),
                              !.max_results = m, !.page_token = t,
                              !.order = o, !.is_educational = edu]
    IN /\ procs[p].pc = "idle"
       /\ \A other \in 1..(p - 1) : procs[other].pc # "idle"
       /\ Cardinality({other \in Procs : procs[other].pc # "idle"}) < workers
       /\ calls < MaxCalls
       /\ calls' = calls + 1
       /\ IF q = <<>> \/ s = <<>>
          THEN Set(p, Raise(r, 400))
          ELSE Set(p, [r EXCEPT !.pc = "get_exact"])
       /\ UNCHANGED <<redis, api_key, workers, events, returned, codec, sync>>

SearchStart(p) ==
    \E q \in Queries, m \in MaxResultsSet, t \in PageTokens, o \in Orders :
        /\ t = None \/ q \in PagedQueries
        /\ workers > 1 => (t = None /\ q \in ConcurrentQueries)
        /\ Begin(p, "search", q, m, t, o, FALSE)

EducationalStart(p) ==
    \E q \in EduQueries, m \in MaxResultsSet :
        Begin(p, "educational", q, m, None, "relevance", TRUE)

(***************************************************************************)
(* YouTubeCacheService.get_cached_search: exact match, then similarity.    *)
(***************************************************************************)
\* the handler got a response from the cache and returns it
ReturnCached(r, data, source) ==
    [r EXCEPT !.pc = "done", !.result = json_loads(data), !.status = 200,
              !.source = source]

\* get_cached_search returned None: the handler goes to the YouTube API
CacheMiss(r) == [r EXCEPT !.pc = "http_search"]

\* get_cached_search going on to the similarity lookup after an exact hit
GetExact_NoShortCircuit(p) ==
    LET r == procs[p]
        key == CacheKeyOf(r)
        seen == [r EXCEPT !.exactSeen = IF Present(key) THEN "live" ELSE "absent",
                          !.exactData = IF Present(key) THEN redis[key].data
                                        ELSE <<>>,
                          !.expected = returned[key],
                          !.exactMeta = Present(MetaKey(key))]
    IN /\ r.pc = "get_exact"
       /\ Set(p, [seen EXCEPT !.pc = "keys"])
       /\ UNCHANGED <<redis, api_key, workers, calls, events, returned, codec, sync>>

\* get_cached_search taking an entry for a hit only if its embedding is stored
GetExact_NeedsEmbedding(p) ==
    LET r == procs[p]
        key == CacheKeyOf(r)
        seen == [r EXCEPT !.exactSeen = IF Present(key) THEN "live" ELSE "absent",
                          !.exactData = IF Present(key) THEN redis[key].data
                                        ELSE <<>>,
                          !.expected = returned[key],
                          !.exactMeta = Present(MetaKey(key))]
    IN /\ r.pc = "get_exact"
       /\ IF Present(key) /\ Present(MetaKey(key))
          THEN Set(p, ReturnCached(seen, redis[key].data, "exact"))
          ELSE Set(p, [seen EXCEPT !.pc = "keys"])
       /\ UNCHANGED <<redis, api_key, workers, calls, events, returned, codec, sync>>

\* cached_data = await redis.get(cache_key); if cached_data: return ...
GetExact(p) ==
    LET r == procs[p]
        key == CacheKeyOf(r)
        seen == [r EXCEPT !.exactSeen = IF Present(key) THEN "live" ELSE "absent",
                          !.exactData = IF Present(key) THEN redis[key].data
                                        ELSE <<>>,
                          !.expected = returned[key],
                          !.exactMeta = Present(MetaKey(key))]
    IN /\ r.pc = "get_exact"
       /\ IF Present(key)
          THEN Set(p, ReturnCached(seen, redis[key].data, "exact"))
          ELSE Set(p, [seen EXCEPT !.pc = "keys"])
       /\ UNCHANGED <<redis, api_key, workers, calls, events, returned, codec, sync>>

\* the query a cache key was derived from (the "q" of its parameters)
QueryOf(cache_key) == cache_key[3][5]

Similarity(query, cache_key) == cos_sim(encode(query), encode(QueryOf(cache_key)))

\* a live cached response whose query is similar enough to this one
SimilarLive(query) ==
    \E k \in CacheKeys :
        Present(k) /\ Similarity(query, k) >= similarity_threshold

\* _find_similar_query: meta_keys = await redis.keys(...); if not meta_keys:
\* return None
FindKeys(p) ==
    LET r == procs[p]
        meta_keys == { k \in AllKeys : Present(k) /\ IsMetaPattern(k) }
        called == [r EXCEPT !.similarCalls = @ + 1,
                            !.hadSimilar = SimilarLive(r.q)]
    IN /\ r.pc = "keys"
       /\ IF meta_keys = {}
          THEN Set(p, CacheMiss([called EXCEPT !.scanDone = TRUE]))
          ELSE Set(p, [called EXCEPT !.pc = "hgetall", !.meta_keys = meta_keys,
                                     !.best_key = NoKey,
                                     !.best_score = InitialBestScore])
       /\ UNCHANGED <<redis, api_key, workers, calls, events, returned, codec, sync>>

\* the threshold test forgotten: if best_key
AboveThreshold_NoThreshold(best_key, best_score) == best_key # NoKey

\* if best_key and best_score >= self.similarity_threshold
AboveThreshold(best_key, best_score) ==
    best_key # NoKey /\ best_score >= similarity_threshold

\* the first embedding read is kept, whatever the later ones score
Better_First(sim, best_score) == best_score = InitialBestScore

\* a later embedding with an equal score taken over
Better_OrEqual(sim, best_score) == sim >= best_score

\* if sim > best_score
Better(sim, best_score) == sim > best_score

\* the end of _find_similar_query, and what get_cached_search does with it
EndScan(r) ==
    IF AboveThreshold(r.best_key, r.best_score)
    THEN [r EXCEPT !.pc = "get_similar", !.similar_key = StripMeta(r.best_key),
                   !.scanDone = TRUE]
    ELSE CacheMiss([r EXCEPT !.scanDone = TRUE])

\* one turn of the loop over meta_keys: data = await redis.hgetall(meta_key).
\* KEYS returns the keys in no particular order.
HGetAll(p) ==
    LET r == procs[p] IN
    /\ r.pc = "hgetall"
    /\ \E meta_key \in r.meta_keys :
         LET rest == [r EXCEPT !.meta_keys = @ \ {meta_key}]
             sim == cos_sim(encode(r.q), redis[meta_key].embedding)
             read == <<meta_key, sim, Cardinality(r.scanned) + 1>>
             next ==
                 IF ~Present(meta_key)
                 THEN rest
                 ELSE IF Better(sim, r.best_score)
                      THEN [rest EXCEPT !.best_score = sim,
                                        !.best_key = meta_key,
                                        !.scanned = @ \cup {read}]
                      ELSE [rest EXCEPT !.scanned = @ \cup {read}]
         IN Set(p, IF next.meta_keys = {} THEN EndScan(next) ELSE next)
    /\ UNCHANGED <<redis, api_key, workers, calls, events, returned, codec, sync>>

\* a hit of the similarity lookup copied under the key of the request
GetSimilar_StoresOwnKey(p) ==
    LET r == procs[p] IN
    /\ r.pc = "get_similar"
    /\ IF Present(r.similar_key)
       THEN /\ Set(p, ReturnCached([r EXCEPT !.similarSeen = "live",
                                             !.similarData = redis[r.similar_key].data,
                                             !.similarExpected = returned[r.similar_key]],
                                   redis[r.similar_key].data, "similar"))
            /\ redis' = [redis EXCEPT ![CacheKeyOf(r)] = redis[r.similar_key]]
       ELSE /\ Set(p, CacheMiss([r EXCEPT !.similarSeen = "absent",
                                          !.similarExpected = returned[r.similar_key]]))
            /\ redis' = redis
    /\ UNCHANGED <<api_key, workers, calls, events, returned, codec, sync>>

\* cached_data = await redis.get(similar_key)
GetSimilar(p) ==
    LET r == procs[p] IN
    /\ r.pc = "get_similar"
    /\ IF Present(r.similar_key)
       THEN Set(p, ReturnCached([r EXCEPT !.similarSeen = "live",
                                          !.similarData = redis[r.similar_key].data,
                                          !.similarExpected = returned[r.similar_key]],
                                redis[r.similar_key].data, "similar"))
       ELSE Set(p, CacheMiss([r EXCEPT !.similarSeen = "absent",
                                       !.similarExpected = returned[r.similar_key]]))
    /\ UNCHANGED <<redis, api_key, workers, calls, events, returned, codec, sync>>

\* get_cached_search without its except clause: the redis error reaches the
\* handler
CacheReadFault_Propagates(p) ==
    LET r == procs[p] IN
    /\ r.pc \in {"get_exact", "keys", "hgetall", "get_similar"}
    /\ events < MaxEvents
    /\ events' = events + 1
    /\ Set(p, Raise([r EXCEPT !.cacheFault = TRUE, !.faultAt = r.pc], 500))
    /\ UNCHANGED <<redis, api_key, workers, calls, returned, codec, sync>>

\* A redis call (or the embedding model) raises inside get_cached_search:
\* except Exception: return None
CacheReadFault(p) ==
    LET r == procs[p] IN
    /\ r.pc \in {"get_exact", "keys", "hgetall", "get_similar"}
    /\ events < MaxEvents
    /\ events' = events + 1
    /\ Set(p, CacheMiss([r EXCEPT !.cacheFault = TRUE, !.faultAt = r.pc,
                                  !.exactSeen = IF r.pc = "get_exact"
                                                THEN "fault" ELSE @]))
    /\ UNCHANGED <<redis, api_key, workers, calls, returned, codec, sync>>

(***************************************************************************)
(* YouTubeService.search_videos / search_educational_videos under          *)
(* asyncio.wait_for(..., timeout=30.0), and the handlers' except clauses.  *)
(***************************************************************************)
\* What the YouTube API answers with when it refuses: the HTTP status and the
\* reason field of the error body.
UpstreamErrors ==
    { [status |-> 403, reason |-> "quotaExceeded"],
      [status |-> 500, reason |-> "backendError"] }

\* str(httpx.HTTPStatusError): the status line and the URL of the request. Of
\* the URL only the query string can hold a word the handler looks for; the
\* body of the response (and so its reason field) is not part of the message.
ErrorMessage(r, url) ==
    IF url = "search"
    THEN IF r.is_educational
         THEN r.q \o <<" ", "t", "u", "t", "o", "r", "i", "a", "l">>
         ELSE r.q
    ELSE <<>>

\* search_youtube_videos, except Exception as youtube_error (videos.py 71-87)
ClassifySearchError(message) ==
    IF Contains(Lower(message), QUOTA) THEN 429
    ELSE IF Contains(Lower(message), INVALID) THEN 400
    ELSE 502

\* search_educational_videos, except Exception (videos.py 166-171)
ClassifyEducationalError(message) == 502

\* except asyncio.TimeoutError (videos.py 65-70, 160-165)
TimeoutStatus == 504

UpstreamFailure(r, err, url) ==
    LET message == ErrorMessage(r, url)
        inner == IF r.endpoint = "search"
                 THEN ClassifySearchError(message)
                 ELSE ClassifyEducationalError(message)
    IN Raise([r EXCEPT !.upstream = err.reason, !.upstreamStatus = err.status,
                       !.excStatus = err.status,
                       !.quotaAnswers = IF err.reason = "quotaExceeded"
                                        THEN @ + 1 ELSE @], inner)

\* response = await client.get(f"{self.base_url}/search", params=params) with
\* "key": self.api_key; a 2xx answer
HttpSearchOk(p) ==
    LET r == procs[p]
        sent == [r EXCEPT !.upstreamCalls = @ + 1, !.searchAttempts = @ + 1,
                          !.usedKey = api_key]
    IN /\ r.pc = "http_search"
       /\ \E page \in UpstreamPages :
            IF page.items = <<>>
            THEN Set(p, [sent EXCEPT !.pc = "setex", !.page = page,
                                     !.upstream = "ok",
                                     !.result = BuildResponse(page, None),
                                     !.fresh = BuildResponse(page, None)])
            ELSE Set(p, [sent EXCEPT !.pc = "http_details", !.page = page])
       /\ UNCHANGED <<redis, api_key, workers, calls, events, returned, codec, sync>>

\* search_videos sending the search request again after a refusal
HttpSearchError_Retry(p) ==
    LET r == procs[p]
        sent == [r EXCEPT !.upstreamCalls = 1, !.searchAttempts = @ + 1,
                          !.usedKey = api_key]
    IN /\ r.pc = "http_search"
       /\ \E err \in UpstreamErrors :
            IF r.searchAttempts < 2
            THEN Set(p, [sent EXCEPT !.upstream = err.reason,
                                     !.upstreamStatus = err.status])
            ELSE Set(p, UpstreamFailure(sent, err, "search"))
       /\ UNCHANGED <<redis, api_key, workers, calls, events, returned, codec, sync>>

\* search_videos moving the service to a next key after a refusal, without
\* wrapping around at the end of the configured credentials
HttpSearchError_Rotate(p) ==
    LET r == procs[p]
        sent == [r EXCEPT !.upstreamCalls = @ + 1, !.searchAttempts = @ + 1,
                          !.usedKey = api_key]
    IN /\ r.pc = "http_search"
       /\ \E err \in UpstreamErrors : Set(p, UpstreamFailure(sent, err, "search"))
       /\ api_key' = "NEXT_KEY"
       /\ UNCHANGED <<redis, workers, calls, events, returned, codec, sync>>

\* response.raise_for_status() raises for the search request
HttpSearchError(p) ==
    LET r == procs[p]
        sent == [r EXCEPT !.upstreamCalls = @ + 1, !.searchAttempts = @ + 1,
                          !.usedKey = api_key]
    IN /\ r.pc = "http_search"
       /\ \E err \in UpstreamErrors : Set(p, UpstreamFailure(sent, err, "search"))
       /\ UNCHANGED <<redis, api_key, workers, calls, events, returned, codec, sync>>

\* _get_video_details: response = await client.get(f"{self.base_url}/videos")
HttpDetailsOk(p) ==
    LET r == procs[p] IN
    /\ r.pc = "http_details"
    /\ Set(p, [r EXCEPT !.pc = "setex", !.detailsAttempts = @ + 1,
                        !.upstream = "ok",
                        !.result = BuildResponse(r.page, "4:13"),
                        !.fresh = BuildResponse(r.page, "4:13")])
    /\ UNCHANGED <<redis, api_key, workers, calls, events, returned, codec, sync>>

\* the response built without the details and cached when the details request
\* fails
HttpDetailsError_Caches(p) ==
    LET r == procs[p]
        sent == [r EXCEPT !.detailsAttempts = @ + 1]
    IN /\ r.pc = "http_details"
       /\ \E err \in UpstreamErrors :
            Set(p, [sent EXCEPT !.pc = "setex", !.upstream = err.reason,
                                !.result = BuildResponse(r.page, None)])
       /\ UNCHANGED <<redis, api_key, workers, calls, events, returned, codec, sync>>

\* response.raise_for_status() raises for the details request
HttpDetailsError(p) ==
    LET r == procs[p]
        sent == [r EXCEPT !.detailsAttempts = @ + 1]
    IN /\ r.pc = "http_details"
       /\ \E err \in UpstreamErrors : Set(p, UpstreamFailure(sent, err, "videos"))
       /\ UNCHANGED <<redis, api_key, workers, calls, events, returned, codec, sync>>

\* the handler calling search_videos once more after the first timeout
UpstreamTimeout_Retry(p) ==
    LET r == procs[p]
        sent == IF r.pc = "http_search"
                THEN [r EXCEPT !.upstreamCalls = @ + 1, !.searchAttempts = @ + 1,
                               !.usedKey = api_key]
                ELSE [r EXCEPT !.detailsAttempts = @ + 1]
    IN /\ r.pc \in {"http_search", "http_details"}
       /\ IF r.upstream = None
          THEN Set(p, [sent EXCEPT !.pc = "http_search", !.upstream = "timeout"])
          ELSE Set(p, Raise([sent EXCEPT !.upstream = "timeout"], TimeoutStatus))
       /\ UNCHANGED <<redis, api_key, workers, calls, events, returned, codec, sync>>

\* asyncio.wait_for cancels search_videos after 30 s: asyncio.TimeoutError
UpstreamTimeout(p) ==
    LET r == procs[p]
        sent == IF r.pc = "http_search"
                THEN [r EXCEPT !.upstreamCalls = @ + 1, !.searchAttempts = @ + 1,
                               !.usedKey = api_key]
                ELSE [r EXCEPT !.detailsAttempts = @ + 1]
    IN /\ r.pc \in {"http_search", "http_details"}
       /\ Set(p, Raise([sent EXCEPT !.upstream = "timeout"], TimeoutStatus))
       /\ UNCHANGED <<redis, api_key, workers, calls, events, returned, codec, sync>>

(***************************************************************************)
(* YouTubeCacheService.cache_search_results and _store_embedding.          *)
(***************************************************************************)
\* one time to live for both categories
TtlOf_Default(is_educational) == default_ttl

\* ttl = self.educational_ttl if is_educational else self.default_ttl
TtlOf(is_educational) == IF is_educational THEN educational_ttl ELSE default_ttl

\* the handler returns the fresh result
ReturnFresh(r) == [r EXCEPT !.pc = "done", !.status = 200, !.source = "upstream"]

\* a write that leaves an entry that is already there as it is (SET NX)
SetEx_FirstWins(p) ==
    LET r == procs[p]
        key == CacheKeyOf(r)
    IN /\ r.pc = "setex"
       /\ redis' = IF Present(key) THEN redis
                   ELSE [redis EXCEPT ![key] =
                            [type |-> "string", data |-> model_dump_json(r.result),
                             ttl |-> TtlOf(r.is_educational)]]
       /\ returned' = [returned EXCEPT ![key] = r.result]
       /\ procs' = [other \in Procs |->
                       IF other = p
                       THEN [r EXCEPT !.pc = "hset", !.wrote = TRUE,
                                      !.eventsAtWrite = events,
                                      !.lastWriter = TRUE]
                       ELSE IF CacheKeyOf(procs[other]) = key
                            THEN [procs[other] EXCEPT !.lastWriter = FALSE]
                            ELSE procs[other]]
       /\ admin' = NoAdmin
       /\ UNCHANGED <<api_key, workers, calls, events, codec, sync>>

\* await self.redis_client.setex(cache_key, ttl, cache_data)
SetEx(p) ==
    LET r == procs[p]
        key == CacheKeyOf(r)
    IN /\ r.pc = "setex"
       /\ redis' = [redis EXCEPT ![key] =
                       [type |-> "string", data |-> model_dump_json(r.result),
                        ttl |-> TtlOf(r.is_educational)]]
       /\ returned' = [returned EXCEPT ![key] = r.result]
       /\ procs' = [other \in Procs |->
                       IF other = p
                       THEN [r EXCEPT !.pc = "hset", !.wrote = TRUE,
                                      !.eventsAtWrite = events,
                                      !.lastWriter = TRUE]
                       ELSE IF CacheKeyOf(procs[other]) = key
                            THEN [procs[other] EXCEPT !.lastWriter = FALSE]
                            ELSE procs[other]]
       /\ admin' = NoAdmin
       /\ UNCHANGED <<api_key, workers, calls, events, codec, sync>>

\* await self.redis_client.hset(meta_key, mapping={...}): a new key has no
\* expiry, an existing one keeps the expiry it has
HSet(p) ==
    LET r == procs[p]
        meta_key == MetaKey(CacheKeyOf(r))
    IN /\ r.pc = "hset"
       /\ redis' = [redis EXCEPT ![meta_key] =
                       [type |-> "hash", query |-> Strip(Lower(r.q)),
                        embedding |-> encode(r.q),
                        ttl |-> IF Present(meta_key) THEN redis[meta_key].ttl
                                ELSE NoExpiry]]
       /\ Set(p, [r EXCEPT !.pc = "expire"])
       /\ UNCHANGED <<api_key, workers, calls, events, returned, codec, sync>>

\* await self.redis_client.expire(meta_key, ttl)
Expire(p) ==
    LET r == procs[p]
        meta_key == MetaKey(CacheKeyOf(r))
    IN /\ r.pc = "expire"
       /\ redis' = IF Present(meta_key)
                   THEN [redis EXCEPT ![meta_key].ttl = TtlOf(r.is_educational)]
                   ELSE redis
       /\ Set(p, ReturnFresh(r))
       /\ UNCHANGED <<api_key, workers, calls, events, returned, codec, sync>>

\* cache_search_results without its except clause: the error reaches the
\* handler
CacheWriteFault_Propagates(p) ==
    LET r == procs[p] IN
    /\ r.pc \in {"setex", "hset", "expire"}
    /\ events < MaxEvents
    /\ events' = events + 1
    /\ Set(p, Raise([r EXCEPT !.cacheFault = TRUE, !.faultAt = r.pc], 500))
    /\ UNCHANGED <<redis, api_key, workers, calls, returned, codec, sync>>

\* A redis call (or the embedding model) raises inside cache_search_results:
\* except Exception: print(...)
CacheWriteFault(p) ==
    LET r == procs[p] IN
    /\ r.pc \in {"setex", "hset", "expire"}
    /\ events < MaxEvents
    /\ events' = events + 1
    /\ Set(p, ReturnFresh([r EXCEPT !.cacheFault = TRUE, !.faultAt = r.pc]))
    /\ UNCHANGED <<redis, api_key, workers, calls, returned, codec, sync>>

\* the response has been sent; the worker takes the next request
Return(p) ==
    /\ procs[p].pc = "done"
    /\ Set(p, IdleProc)
    /\ UNCHANGED <<redis, api_key, workers, calls, events, returned, codec, sync>>

(***************************************************************************)
(* Redis: expiry of keys, and clear_cache -> invalidate_search_cache.      *)
(***************************************************************************)
Expired(v) == v.type # "absent" /\ v.ttl # NoExpiry /\ v.ttl <= TickSeconds

\* a redis that never drops a key
Aged_Never(v) == v

Aged(v) ==
    IF v.type = "absent" \/ v.ttl = NoExpiry THEN v
    ELSE IF Expired(v) THEN Absent
    ELSE [v EXCEPT !.ttl = @ - TickSeconds]

\* TickSeconds pass: redis drops the keys whose time to live has run out
Tick ==
    /\ events < MaxEvents
    /\ events' = events + 1
    /\ redis' = [k \in AllKeys |-> Aged(redis[k])]
    /\ returned' = [k \in CacheKeys |->
                      IF Expired(redis[k]) THEN ExpiredResponse ELSE returned[k]]
    /\ admin' = NoAdmin
    /\ UNCHANGED <<procs, api_key, workers, calls, codec, sync>>

ClearPatterns == { None, "edu", "search" }

\* invalidate_search_cache: keys = await redis.keys(search_pattern); if keys:
\* return await redis.delete(*keys), the number of keys redis removed.
\* clear_cache answers "Cleared {cleared_count} cache entries".
ClearCache ==
    /\ events < MaxEvents
    /\ events' = events + 1
    /\ \E pattern \in ClearPatterns :
         LET keys == { k \in AllKeys : Present(k) /\ MatchesPattern(k, pattern) }
         IN /\ redis' = [k \in AllKeys |-> IF k \in keys THEN Absent ELSE redis[k]]
            /\ returned' = [k \in CacheKeys |->
                              IF k \in keys THEN NoResponse ELSE returned[k]]
            /\ admin' = [NoAdmin EXCEPT
                            !.op = "clear", !.pattern = pattern,
                            !.cleared_count = Cardinality(keys),
                            !.entries_removed = Cardinality(keys \cap CacheKeys)]
    /\ UNCHANGED <<procs, api_key, workers, calls, codec, sync>>

\* a redis call raises inside invalidate_search_cache: except Exception:
\* return 0
ClearCacheFault ==
    /\ events < MaxEvents
    /\ events' = events + 1
    /\ \E pattern \in ClearPatterns :
         admin' = [NoAdmin EXCEPT !.op = "clear", !.pattern = pattern,
                                  !.fault = TRUE, !.cleared_count = 0]
    /\ UNCHANGED <<redis, procs, api_key, workers, calls, returned, codec, sync>>

\* get_cache_stats: search_keys = await redis.keys(f"{prefix}:search:*");
\* edu_keys = await redis.keys(f"{prefix}:edu:*"); the counts are their lengths
CacheStats ==
    LET search_keys == { k \in AllKeys : Present(k) /\ MatchesPattern(k, "search") }
        edu_keys == { k \in AllKeys : Present(k) /\ MatchesPattern(k, "edu") }
    IN /\ events < MaxEvents
       /\ events' = events + 1
       /\ admin' = [NoAdmin EXCEPT
                       !.op = "stats",
                       !.total_cached_searches =
                           Cardinality(search_keys) + Cardinality(edu_keys),
                       !.regular_searches = Cardinality(search_keys),
                       !.educational_searches = Cardinality(edu_keys)]
       /\ UNCHANGED <<redis, procs, api_key, workers, calls, returned, codec, sync>>

Next ==
    \/ \E p \in Procs :
         \/ SearchStart(p)
         \/ EducationalStart(p)
         \/ GetExact(p)
         \/ FindKeys(p)
         \/ HGetAll(p)
         \/ GetSimilar(p)
         \/ CacheReadFault(p)
         \/ HttpSearchOk(p)
         \/ HttpSearchError(p)
         \/ HttpDetailsOk(p)
         \/ HttpDetailsError(p)
         \/ UpstreamTimeout(p)
         \/ SetEx(p)
         \/ HSet(p)
         \/ Expire(p)
         \/ CacheWriteFault(p)
         \/ Return(p)
    \/ Tick
    \/ ClearCache
    \/ ClearCacheFault
    \/ CacheStats

Spec == Init /\ [][Next]_vars

(***************************************************************************)
(* Concurrent requests: the event loop runs several handlers at once, one  *)
(* request per handler. No redis fault, expiry or clear happens in these   *)
(* runs.                                                                   *)
(***************************************************************************)
InitConcurrent ==
    /\ redis = [k \in AllKeys |-> Absent]
    /\ procs = [p \in Procs |-> IdleProc]
    /\ api_key = credentials[1]
    /\ workers = NumProcs
    /\ calls = MaxCalls - NumProcs
    /\ events = MaxEvents
    /\ returned = [k \in CacheKeys |-> NoResponse]
    /\ admin = NoAdmin
    /\ sync = NoSync
    /\ codec = NoCodec

NextConcurrent ==
    \E p \in Procs :
        \/ SearchStart(p)
        \/ EducationalStart(p)
        \/ GetExact(p)
        \/ FindKeys(p)
        \/ HGetAll(p)
        \/ GetSimilar(p)
        \/ HttpSearchOk(p)
        \/ HttpSearchError(p)
        \/ HttpDetailsOk(p)
        \/ HttpDetailsError(p)
        \/ UpstreamTimeout(p)
        \/ SetEx(p)
        \/ HSet(p)
        \/ Expire(p)
        \/ Return(p)

SpecConcurrent == InitConcurrent /\ [][NextConcurrent]_vars

(***************************************************************************)
(* The key codec on its own: _generate_cache_key called on two parameter   *)
(* tuples.                                                                 *)
(***************************************************************************)
KeyQueries == { <<"a">>, <<"A">>, <<" ", "a">>, <<"a", " ">>, <<"b">> }
KeyMaxResults == { 1, 50 }
KeyPageTokens == { None, "", "t2" }
KeyOrders == { "relevance", "date" }

KeyInputs ==
    [query : KeyQueries, max_results : KeyMaxResults, page_token : KeyPageTokens,
     order : KeyOrders, is_educational : BOOLEAN]

InitKeys ==
    /\ redis = [k \in AllKeys |-> Absent]
    /\ procs = [p \in Procs |-> IdleProc]
    /\ api_key = credentials[1]
    /\ workers = 0
    /\ calls = 0
    /\ events = 0
    /\ returned = [k \in CacheKeys |-> NoResponse]
    /\ admin = NoAdmin
    /\ sync = NoSync
    /\ codec \in { [x |-> a, y |-> b, key_x |-> NoKey, key_y |-> NoKey] :
                     a \in KeyInputs, b \in KeyInputs }

KeyOf(a) ==
    _generate_cache_key(a.query, a.max_results, a.page_token, a.order,
                        a.is_educational)

GenerateKeyX ==
    /\ codec.key_x = NoKey
    /\ codec' = [codec EXCEPT !.key_x = KeyOf(codec.x)]
    /\ UNCHANGED <<redis, procs, api_key, workers, calls, events, returned, admin,
                 sync>>

GenerateKeyY ==
    /\ codec.key_y = NoKey
    /\ codec' = [codec EXCEPT !.key_y = KeyOf(codec.y)]
    /\ UNCHANGED <<redis, procs, api_key, workers, calls, events, returned, admin,
                 sync>>

NextKeys == GenerateKeyX \/ GenerateKeyY

SpecKeys == InitKeys /\ [][NextKeys]_vars

(***************************************************************************)
(* YouTubeService._parse_duration on its own.                              *)
(***************************************************************************)
Digits == <<"0", "1", "2", "3", "4", "5", "6", "7", "8", "9">>

IsDigit(c) == \E i \in DOMAIN Digits : Digits[i] = c

DigitValue(c) == (CHOOSE i \in DOMAIN Digits : Digits[i] = c) - 1

\* int(group)
RECURSIVE int(_)
int(s) ==
    IF s = <<>> THEN 0
    ELSE 10 * int(SubSeq(s, 1, Len(s) - 1)) + DigitValue(s[Len(s)])

\* f"{n}"
RECURSIVE str(_)
str(n) ==
    IF n < 10 THEN <<Digits[n + 1]>>
    ELSE str(n \div 10) \o <<Digits[(n % 10) + 1]>>

\* the number printed without padding
Format02d_NoPad(n) == str(n)

\* f"{n:02d}"
Format02d(n) == IF n < 10 THEN <<"0">> \o str(n) ELSE str(n)

\* the length of the run of digits s starts with
RECURSIVE DigitRun(_)
DigitRun(s) ==
    IF s # <<>> /\ IsDigit(Head(s)) THEN 1 + DigitRun(Tail(s)) ELSE 0

\* (?:(\d+)X)? matched at the start of s: the group (empty when the optional
\* part does not match) and what is left of s
Component(s, letter) ==
    LET n == DigitRun(s) IN
    IF n > 0 /\ Len(s) > n /\ s[n + 1] = letter
    THEN [group |-> SubSeq(s, 1, n), rest |-> SubSeq(s, n + 2, Len(s))]
    ELSE [group |-> <<>>, rest |-> s]

\* re.match(r'PT(?:(\d+)H)?(?:(\d+)M)?(?:(\d+)S)?', duration) and the
\* formatting of its groups
_parse_duration(duration) ==
    IF duration = <<>> THEN <<>>
    ELSE IF ~(Len(duration) >= 2 /\ SubSeq(duration, 1, 2) = <<"P", "T">>)
    THEN <<>>
    ELSE LET h == Component(SubSeq(duration, 3, Len(duration)), "H")
             m == Component(h.rest, "M")
             sec == Component(m.rest, "S")
             hours == IF h.group # <<>> THEN int(h.group) ELSE 0
             minutes == IF m.group # <<>> THEN int(m.group) ELSE 0
             seconds == IF sec.group # <<>> THEN int(sec.group) ELSE 0
         IN IF hours > 0
            THEN str(hours) \o <<":">> \o Format02d(minutes) \o <<":">>
                     \o Format02d(seconds)
            ELSE str(minutes) \o <<":">> \o Format02d(seconds)

\* The durations handed to _parse_duration: a prefix, up to three components
\* (none, or its number) and a suffix.
DurationPrefixes == { <<>>, <<"P", "T">>, <<"P">> }
DurationHours == { <<>>, <<0>>, <<1>>, <<12>> }
DurationMinutes == { <<>>, <<2>>, <<4>>, <<75>> }
DurationSeconds == { <<>>, <<0>>, <<3>>, <<13>> }
DurationSuffixes == { <<>>, <<"x">> }

ComponentText(c, letter) == IF c = <<>> THEN <<>> ELSE str(c[1]) \o <<letter>>

DurationText(pre, h, m, sec, suf) ==
    pre \o ComponentText(h, "H") \o ComponentText(m, "M")
        \o ComponentText(sec, "S") \o suf

NotParsed == <<"?">>

InitDuration ==
    /\ redis = [k \in AllKeys |-> Absent]
    /\ procs = [p \in Procs |-> IdleProc]
    /\ api_key = credentials[1]
    /\ workers = 0
    /\ calls = 0
    /\ events = 0
    /\ returned = [k \in CacheKeys |-> NoResponse]
    /\ admin = NoAdmin
    /\ sync = NoSync
    /\ codec \in { [prefix |-> pre, hours |-> h, minutes |-> m, seconds |-> sec,
                     suffix |-> suf,
                     duration |-> DurationText(pre, h, m, sec, suf),
                     parsed |-> NotParsed] :
                     pre \in DurationPrefixes, h \in DurationHours,
                     m \in DurationMinutes, sec \in DurationSeconds,
                     suf \in DurationSuffixes }

ParseDuration ==
    /\ codec.parsed = NotParsed
    /\ codec' = [codec EXCEPT !.parsed = _parse_duration(codec.duration)]
    /\ UNCHANGED <<redis, procs, api_key, workers, calls, events, returned, admin,
                 sync>>

NextDuration == ParseDuration

SpecDuration == InitDuration /\ [][NextDuration]_vars

(***************************************************************************)
(* SyncService: the sync queue of one user (a redis list).                 *)
(***************************************************************************)
\* redis.from_url of sync_service.py makes the blocking client of "import
\* redis": its calls return their result, not an awaitable, so "await
\* self.redis_client.rpop(...)" raises TypeError once the command has run.
\* "redis.asyncio" is the client youtube_cache_service.py makes, whose calls
\* can be awaited.
Clients == {"redis", "redis.asyncio"}

\* What lies in the queue: "ok" is json.dumps of a sync_item as
\* queue_sync_operation builds it; "no_key" is JSON without one of the keys
\* "operation", "data", "user_id" (KeyError in _process_sync_item); "not_json"
\* is text json.loads rejects.
ItemKinds == {"ok", "no_key", "not_json"}

RECURSIVE Queues(_)
Queues(n) ==
    IF n = 0 THEN {<<>>}
    ELSE Queues(n - 1) \cup
         {<<kind>> \o q : kind \in ItemKinds,
                          q \in {x \in Queues(n - 1) : Len(x) = n - 1}}

\* lpush: the new element becomes the head of the list
lpush(queue, item_json) == <<item_json>> \o queue

\* results.append(...)
append(results) == IF results < MaxSyncResults THEN results + 1 ELSE results

InitSync ==
    /\ redis = [k \in AllKeys |-> Absent]
    /\ procs = [p \in Procs |-> IdleProc]
    /\ api_key = credentials[1]
    /\ workers = 0
    /\ calls = 0
    /\ events = 0
    /\ returned = [k \in CacheKeys |-> NoResponse]
    /\ admin = NoAdmin
    /\ codec = NoCodec
    /\ sync \in { [NoSync EXCEPT !.client = c, !.queue = q] :
                    c \in Clients, q \in Queues(MaxQueue - 1) }

\* queue_sync_operation, called before process_sync_queue starts
queue_sync_operation ==
    /\ sync.pc = "idle"
    /\ Len(sync.queue) < MaxQueue
    /\ sync' = [sync EXCEPT !.queue = lpush(sync.queue, "ok"),
                            !.exc = IF sync.client = "redis" THEN "TypeError"
                                    ELSE None]
    /\ UNCHANGED <<redis, procs, api_key, workers, calls, events, returned, admin,
                   codec>>

\* process_sync_queue is called: results = []
process_sync_queue ==
    /\ sync.pc = "idle"
    /\ sync' = [sync EXCEPT !.pc = "rpop", !.results = 0, !.bound = FALSE,
                            !.exc = None]
    /\ UNCHANGED <<redis, procs, api_key, workers, calls, events, returned, admin,
                   codec>>

\* item_json = await self.redis_client.rpop(queue_key); if not item_json: break
\* and return results
Rpop ==
    LET n == Len(sync.queue)
        item_json == IF n = 0 THEN <<>> ELSE <<sync.queue[n]>>
        popped == [sync EXCEPT !.queue = IF n = 0 THEN <<>>
                                         ELSE SubSeq(sync.queue, 1, n - 1),
                               !.item_json = item_json]
    IN /\ sync.pc = "rpop"
       /\ sync' = IF sync.client = "redis"
                  THEN [popped EXCEPT !.pc = "raised", !.exc = "TypeError",
                                      !.lost = (n > 0)]
                  ELSE IF item_json = <<>>
                       THEN [popped EXCEPT !.pc = "returned"]
                       ELSE [popped EXCEPT !.pc = "try"]
       /\ UNCHANGED <<redis, procs, api_key, workers, calls, events, returned, admin,
                      codec>>

\* try: sync_item = json.loads(item_json);
\*      result = await self._process_sync_item(sync_item);
\*      results.append(result)
TryItem ==
    LET kind == sync.item_json[1] IN
    /\ sync.pc = "try"
    /\ sync' = IF kind = "ok"
               THEN [sync EXCEPT !.pc = "rpop", !.bound = TRUE,
                                 !.results = append(sync.results)]
               ELSE IF kind = "no_key"
                    THEN [sync EXCEPT !.pc = "except", !.bound = TRUE]
                    ELSE [sync EXCEPT !.pc = "except"]
    /\ UNCHANGED <<redis, procs, api_key, workers, calls, events, returned, admin,
                   codec>>

\* except Exception as e: await self.redis_client.lpush(queue_key, item_json);
\*      results.append({"error": str(e), "item": sync_item})
\* sync_item is unbound when json.loads failed on the first item of the call
ExceptItem ==
    LET requeued == [sync EXCEPT !.queue = lpush(sync.queue, sync.item_json[1])]
    IN /\ sync.pc = "except"
       /\ sync' = IF sync.bound
                  THEN [requeued EXCEPT !.pc = "rpop",
                                        !.results = append(sync.results)]
                  ELSE [requeued EXCEPT !.pc = "raised",
                                        !.exc = "UnboundLocalError"]
       /\ UNCHANGED <<redis, procs, api_key, workers, calls, events, returned, admin,
                      codec>>

NextSync ==
    \/ queue_sync_operation
    \/ process_sync_queue
    \/ Rpop
    \/ TryItem
    \/ ExceptItem

\* the event loop runs the coroutine on to its next await
SpecSync == InitSync /\ [][NextSync]_vars /\ WF_vars(NextSync)

(***************************************************************************)
(* Properties.                                                             *)
(***************************************************************************)
PoolSize == Len(credentials)

\* the position of the service's key in the configured credentials is a valid
\* index in [0, PoolSize)
CursorValid == \E i \in 0..(PoolSize - 1) : credentials[i + 1] = api_key

InUpstream(r) == r.pc \in {"http_search", "http_details", "setex", "hset", "expire"}

\* C1: a Search that finds, under the key of its request, the live entry
\* written back by an earlier Search of the same request returns (the store
\* answering the lookup) the very response that earlier Search returned, from
\* the exact-match lookup and without any call to the YouTube API.
C1_Idempotence ==
    \A p \in Procs :
        LET r == procs[p] IN
        r.exactSeen = "live" =>
            /\ r.pc = "done"
            /\ r.status = 200
            /\ r.source = "exact"
            /\ r.result = r.expected
            /\ r.upstreamCalls = 0
            /\ r.searchAttempts = 0

C1_Witness ==
    \E p \in Procs :
        LET r == procs[p] IN
        /\ r.pc = "done"
        /\ r.exactSeen = "live"
        /\ r.result = r.expected
        /\ r.result.next_page_token = "t2"
        /\ r.upstreamCalls = 0

\* C2: when the exact lookup finds a live entry under the key of the request,
\* the handler returns that entry's payload at once: _find_similar_query is
\* not called and no request goes to the YouTube API.
C2_ExactShortCircuit ==
    \A p \in Procs :
        LET r == procs[p] IN
        r.exactSeen = "live" =>
            /\ r.pc = "done"
            /\ r.result = json_loads(r.exactData)
            /\ r.similarCalls = 0
            /\ r.scanned = {}
            /\ r.similarSeen = None
            /\ r.upstreamCalls = 0
            /\ r.detailsAttempts = 0
            /\ ~r.wrote

C2_Witness ==
    \E p \in Procs :
        LET r == procs[p] IN
        /\ r.exactSeen = "live"
        /\ r.source = "exact"
        /\ r.similarCalls = 0
        /\ \E k \in CacheKeys :
             /\ k # CacheKeyOf(r)
             /\ Present(MetaKey(k))
             /\ Similarity(r.q, k) >= similarity_threshold

\* C3 as claimed: whenever the exact key misses and some live cached response
\* has a query with similarity >= 0.8 to this one, Search returns a cached
\* response and does not go to the YouTube API, whatever else the store holds;
\* and a response is reused only for a similarity >= 0.8.
C3_Original ==
    \A p \in Procs :
        LET r == procs[p] IN
        /\ (r.exactSeen = "absent" /\ ~r.cacheFault /\ r.hadSimilar
              /\ SimilarLive(r.q))
           => ~InUpstream(r)
        /\ r.source = "similar"
           => Similarity(r.q, r.similar_key) >= similarity_threshold

\* C3 amended: after an exact miss, if the best-scoring embedding the lookup
\* read scores >= 0.8 and the entry under its key is live when it is fetched,
\* Search returns that entry's payload without a call to the YouTube API; a
\* response is reused only if its query has similarity >= 0.8 to the request's,
\* so when every live cached query is below 0.8 the request goes upstream.
C3_SemanticReuse ==
    \A p \in Procs :
        LET r == procs[p] IN
        /\ r.similarSeen = "live"
           => /\ r.pc = "done"
              /\ r.status = 200
              /\ r.source = "similar"
              /\ r.result = json_loads(r.similarData)
              /\ r.upstreamCalls = 0
        /\ r.source = "similar"
           => /\ Similarity(r.q, r.similar_key) >= similarity_threshold
              /\ r.exactSeen = "absent"
        /\ (r.exactSeen = "absent" /\ r.similarCalls = 1 /\ ~r.hadSimilar)
           => /\ r.source # "similar"
              /\ r.similarSeen # "live"
              /\ r.pc = "done" => r.upstreamCalls = 1

C3_Witness ==
    \E p \in Procs :
        LET r == procs[p] IN
        /\ r.pc = "done"
        /\ r.source = "similar"
        /\ r.exactSeen = "absent"
        /\ r.similar_key # CacheKeyOf(r)
        /\ r.upstreamCalls = 0
        /\ Cardinality(r.scanned) = 2

MaxScore(scanned) ==
    CHOOSE s \in {e[2] : e \in scanned} : \A e \in scanned : e[2] <= s

\* C4: when _find_similar_query has read the stored embeddings, it returns a
\* key exactly if the highest similarity among them is >= 0.8, and the key is
\* the cache key of an embedding with that highest similarity: the key its
\* ":meta" key was derived from. With nothing stored, or the highest below
\* 0.8, it returns none.
C4_FindSimilar ==
    \A p \in Procs :
        LET r == procs[p] IN
        r.scanDone =>
            IF r.scanned # {} /\ MaxScore(r.scanned) >= similarity_threshold
            THEN /\ r.similar_key # NoKey
                 /\ \E e \in r.scanned :
                      /\ e[2] = MaxScore(r.scanned)
                      /\ e[1] = MetaKey(r.similar_key)
                 /\ r.similar_key \in CacheKeys
            ELSE r.similar_key = NoKey

C4_Witness ==
    \E p \in Procs :
        LET r == procs[p] IN
        /\ r.scanDone
        /\ r.similar_key # NoKey
        /\ \E e1, e2 \in r.scanned :
             /\ e1[2] < e2[2]
             /\ e1[2] >= similarity_threshold
             /\ e2[1] = MetaKey(r.similar_key)

\* C5: a Search during which a redis call failed still goes to the YouTube
\* API, returns the fresh response when the API answers, and ends in an error
\* only if the API call itself failed.
C5_CacheFaultsAbsorbed ==
    \A p \in Procs :
        LET r == procs[p] IN
        r.cacheFault =>
            /\ InUpstream(r) \/ r.pc = "done"
            /\ r.pc = "done" =>
                 /\ r.upstreamCalls = 1
                 /\ IF r.upstream = "ok"
                    THEN /\ r.status = 200
                         /\ r.source = "upstream"
                         /\ r.fresh # NoResponse
                         /\ r.result = r.fresh
                    ELSE r.upstream \in {"quotaExceeded", "backendError", "timeout"}

C5_Witness ==
    \E p \in Procs :
        LET r == procs[p] IN
        /\ r.pc = "done"
        /\ r.cacheFault
        /\ r.exactSeen = "fault"
        /\ r.status = 200
        /\ r.result = r.fresh
        /\ r.fresh.videos # <<>>

\* C6 as claimed: a call that meets fewer quota refusals than there are
\* credentials and then an answer succeeds with the service's current key, a
\* valid one; a call in which every credential was refused for quota fails as
\* quota exhaustion (the kind the handler maps to 429).
C6_Original ==
    \A p \in Procs :
        LET r == procs[p] IN
        /\ (r.upstream = "ok" /\ r.quotaAnswers < PoolSize)
           => (r.usedKey = api_key /\ CursorValid)
        /\ (r.pc = "done" /\ r.endpoint = "search" /\ r.quotaAnswers = PoolSize)
           => r.inner = 429

\* C7: in one call of search_videos the search request and the details
\* request are each sent at most once per configured credential, and an
\* answer that is not a quota refusal ends the call at once with an error
\* that carries the status the API answered with.
C7_RetryBound ==
    \A p \in Procs :
        LET r == procs[p] IN
        /\ r.searchAttempts <= PoolSize
        /\ r.detailsAttempts <= PoolSize
        /\ r.upstreamCalls <= 1
        /\ r.upstream = "backendError"
           => /\ r.pc = "done"
              /\ r.status # 200
              /\ r.excStatus = 500
              /\ r.fresh = NoResponse

C7_Witness ==
    \E p \in Procs :
        LET r == procs[p] IN
        /\ r.pc = "done"
        /\ r.upstream = "backendError"
        /\ r.searchAttempts = 1
        /\ r.detailsAttempts = 1

C9_Original ==
    \A p \in Procs :
        LET r == procs[p] IN
        /\ (r.pc = "done" /\ r.upstream = "timeout")
           => (r.status = TimeoutStatus /\ ~r.wrote)
        /\ (r.pc = "done" /\ r.upstream # "timeout") => r.status # TimeoutStatus

\* C10 as claimed: a Search whose YouTube call was refused for quota ends with
\* HTTP 429, one refused for another reason with HTTP 502, and neither with
\* the status of an internal error, 500.
C10_Original ==
    \A p \in Procs :
        LET r == procs[p] IN
        (r.pc = "done" /\ r.endpoint = "search") =>
            /\ r.upstream = "quotaExceeded" => r.status = 429
            /\ r.upstream = "backendError" => r.status = 502
            /\ r.upstream \in {"quotaExceeded", "backendError"} => r.status # 500

\* C11 as claimed: a Search whose query is empty after trimming ends with
\* HTTP 400 and has contacted neither redis nor the YouTube API; every request
\* that goes on to the cache or to the API has a non-empty trimmed query and
\* max_results in 1..50.
C11_Original ==
    \A p \in Procs :
        LET r == procs[p] IN
        /\ (r.pc = "done" /\ r.q = <<>>)
           => /\ r.status = 400
              /\ r.exactSeen = None
              /\ r.similarCalls = 0
              /\ r.upstreamCalls = 0
              /\ ~r.wrote
        /\ r.pc \notin {"idle", "done"}
           => /\ Strip(r.q) # <<>>
              /\ r.max_results \in 1..50

C13_WriteBackTtl ==
    \A p \in Procs :
        LET r == procs[p]
            key == CacheKeyOf(r)
            ttl == IF r.is_educational THEN educational_ttl ELSE default_ttl
        IN (r.pc = "done" /\ r.source = "upstream" /\ r.wrote
              /\ events = r.eventsAtWrite)
           => /\ redis[key].type = "string"
              /\ redis[key].data = model_dump_json(r.fresh)
              /\ redis[key].ttl = ttl
              /\ redis[MetaKey(key)].type = "hash"
              /\ redis[MetaKey(key)].embedding = encode(r.q)
              /\ redis[MetaKey(key)].ttl = ttl

C13_Witness ==
    \E p \in Procs :
        LET r == procs[p]
            key == CacheKeyOf(r)
        IN /\ r.pc = "done"
           /\ r.source = "upstream"
           /\ r.is_educational
           /\ events = r.eventsAtWrite
           /\ redis[key].ttl = 7200
           /\ redis[MetaKey(key)].ttl = 7200
           /\ \E k \in CacheKeys : k[2] = "search" /\ Present(k)
                                   /\ redis[k].ttl = 3600

\* C14: a response that Search returns from the cache, by the exact lookup or
\* by the similarity lookup, is that of an entry that has not expired; a
\* lookup that meets a key whose entry has expired does not return it, also
\* when the similarity lookup was led to the key by an embedding that is still
\* stored, and the request then goes to the YouTube API.
C14_Expiry ==
    \A p \in Procs :
        LET r == procs[p] IN
        /\ r.source = "exact"
           => /\ r.expected \notin {NoResponse, ExpiredResponse}
              /\ r.result = r.expected
        /\ r.source = "similar"
           => /\ r.similarExpected \notin {NoResponse, ExpiredResponse}
              /\ r.result = r.similarExpected
        /\ r.expected = ExpiredResponse
           => /\ r.exactSeen = "absent"
              /\ r.source # "exact"
        /\ r.similarExpected = ExpiredResponse
           => /\ r.similarSeen = "absent"
              /\ r.source \notin {"exact", "similar"}
              /\ r.pc = "done" => r.upstreamCalls = 1

C14_Witness ==
    \E p \in Procs :
        LET r == procs[p] IN
        /\ r.pc = "done"
        /\ r.similarExpected = ExpiredResponse
        /\ Present(MetaKey(r.similar_key))
        /\ ~Present(r.similar_key)
        /\ r.source = "upstream"
        /\ r.upstreamCalls = 1

\* a parameter tuple in normal form: the query lower-cased and trimmed, an
\* empty page token taken as an absent one
Normalized(a) ==
    [a EXCEPT !.query = Lower(Strip(@)),
              !.page_token = IF @ = "" THEN None ELSE @]

KeysGenerated == codec.key_x # NoKey /\ codec.key_y # NoKey

\* C15: two parameter tuples that are equal in normal form get the same cache
\* key.
C15_KeyDeterminism ==
    (KeysGenerated /\ Normalized(codec.x) = Normalized(codec.y))
        => codec.key_x = codec.key_y

C15_Witness ==
    /\ KeysGenerated
    /\ codec.x.query = <<" ", "a">>
    /\ codec.y.query = <<"A">>
    /\ codec.x.page_token = ""
    /\ codec.y.page_token = None
    /\ Normalized(codec.x) = Normalized(codec.y)
    /\ codec.key_x = codec.key_y

\* C16: two parameter tuples that differ in normal form get different cache
\* keys (the digest taken as free of collisions), and a key is made of the
\* prefix, the category and the digest, the category being "edu" exactly for
\* an educational request and "search" otherwise.
C16_KeyDistinctShape ==
    /\ (KeysGenerated /\ Normalized(codec.x) # Normalized(codec.y))
          => codec.key_x # codec.key_y
    /\ codec.key_x # NoKey
          => /\ Len(codec.key_x) = 3
             /\ codec.key_x[1] = prefix
             /\ codec.key_x[2] = (IF codec.x.is_educational THEN "edu" ELSE "search")
    /\ codec.key_y # NoKey
          => /\ Len(codec.key_y) = 3
             /\ codec.key_y[1] = prefix
             /\ codec.key_y[2] = (IF codec.y.is_educational THEN "edu" ELSE "search")

C16_Witness ==
    /\ KeysGenerated
    /\ codec.x.is_educational
    /\ codec.y = [codec.x EXCEPT !.order = "date"]
    /\ codec.x.order = "relevance"
    /\ codec.key_x # codec.key_y
    /\ codec.key_x[2] = "edu"
    /\ codec.key_y[2] = "edu"

\* a write-back for this key is between its hset and its expire
StoringEmbedding(k) ==
    \E p \in Procs : procs[p].pc = "expire" /\ CacheKeyOf(procs[p]) = k

\* C17 as claimed: in every state an embedding is stored only for a key whose
\* entry is live or has just expired, and, unless the write-back that stores
\* it is about to set its expiry, it has an expiry.
C17_Original ==
    \A k \in CacheKeys :
        (Present(MetaKey(k)) /\ ~StoringEmbedding(k))
            => /\ redis[MetaKey(k)].ttl # NoExpiry
               /\ Present(k) \/ returned[k] = ExpiredResponse

\* C18: an exact lookup that finds a live entry whose embedding is not stored
\* returns that entry all the same; the similarity lookup returns an entry
\* only by way of its stored embedding.
C18_EmbeddingNotAuthoritative ==
    \A p \in Procs :
        LET r == procs[p] IN
        /\ (r.exactSeen = "live" /\ ~r.exactMeta)
           => /\ r.pc = "done"
              /\ r.status = 200
              /\ r.source = "exact"
              /\ r.result = json_loads(r.exactData)
        /\ r.source = "similar"
           => \E e \in r.scanned : e[1] = MetaKey(r.similar_key)

C18_Witness ==
    \E p \in Procs :
        LET r == procs[p] IN
        /\ r.pc = "done"
        /\ r.exactSeen = "live"
        /\ ~r.exactMeta
        /\ ~Present(MetaKey(CacheKeyOf(r)))
        /\ r.source = "exact"
        /\ r.result = r.expected

\* C19 as claimed: clear_cache answers with the number of cache entries it
\* removed; right after a call without a pattern no entry and no embedding is
\* left, right after a call for a category none of that category is left; a
\* call during which redis failed answers 0.
C19_Original ==
    admin.op = "clear" =>
        IF admin.fault
        THEN admin.cleared_count = 0
        ELSE /\ admin.cleared_count = admin.entries_removed
             /\ \A k \in AllKeys :
                  (admin.pattern = None \/ k[2] = admin.pattern) => ~Present(k)

\* C20 as claimed: get_cache_stats reports as total the number of live cached
\* responses, as regular and educational counts the numbers of live cached
\* responses of each category, and the two counts add up to the total.
C20_Original ==
    admin.op = "stats" =>
        LET live(category) ==
                Cardinality({ k \in CacheKeys : Present(k) /\ k[2] = category })
        IN /\ admin.total_cached_searches = live("search") + live("edu")
           /\ admin.regular_searches = live("search")
           /\ admin.educational_searches = live("edu")
           /\ admin.total_cached_searches
                 = admin.regular_searches + admin.educational_searches

\* the number of a component, a missing one counting as 0
ComponentValue(c) == IF c = <<>> THEN 0 ELSE c[1]

Pad2(n) == IF n < 10 THEN <<"0">> \o str(n) ELSE str(n)

\* 'H:MM:SS' when hours > 0 and 'M:SS' otherwise
Readable(h, m, sec) ==
    IF ComponentValue(h) > 0
    THEN str(ComponentValue(h)) \o <<":">> \o Pad2(ComponentValue(m)) \o <<":">>
             \o Pad2(ComponentValue(sec))
    ELSE str(ComponentValue(m)) \o <<":">> \o Pad2(ComponentValue(sec))

\* C21 as claimed: a duration made of the components alone ('4M13S',
\* '1H2M3S') is turned into 'H:MM:SS' or 'M:SS', and the empty input into
\* the empty string.
C21_Original ==
    (codec.parsed # NotParsed /\ codec.prefix = <<>> /\ codec.suffix = <<>>)
        => codec.parsed = IF codec.duration = <<>> THEN <<>>
                          ELSE Readable(codec.hours, codec.minutes, codec.seconds)

\* C21 amended: a duration that starts with "PT" followed by the components
\* is turned into 'H:MM:SS' when hours > 0 and 'M:SS' otherwise, missing
\* components counting as 0 and what follows the components being ignored; a
\* duration that does not start with "PT", the empty one and '4M13S' among
\* them, gives the empty string.
C21_DurationParsing ==
    codec.parsed # NotParsed =>
        IF codec.prefix = <<"P", "T">>
        THEN codec.parsed = Readable(codec.hours, codec.minutes, codec.seconds)
        ELSE codec.parsed = <<>>

C21_Witness ==
    /\ codec.duration = <<"P", "T", "1", "H", "2", "M", "3", "S">>
    /\ codec.parsed = <<"1", ":", "0", "2", ":", "0", "3">>

Failures == {"quotaExceeded", "backendError", "timeout"}

\* C22: one Search makes at most one attempt at the YouTube API: search_videos
\* is called at most once and sends each of its two requests at most once; a
\* Search answered from the cache calls it not at all, a Search that missed
\* both lookups calls it exactly once, and a failure or a timeout ends the
\* Search right there, with no second attempt.
C22_NoRetry ==
    \A p \in Procs :
        LET r == procs[p] IN
        /\ r.upstreamCalls <= 1
        /\ r.searchAttempts <= 1
        /\ r.detailsAttempts <= 1
        /\ r.source \in {"exact", "similar"} => r.upstreamCalls = 0
        /\ (r.pc = "done" /\ r.exactSeen = "absent" /\ r.scanDone
              /\ r.source # "similar")
           => r.upstreamCalls = 1
        /\ r.upstream \in Failures
           => /\ r.pc = "done"
              /\ r.upstreamCalls = 1
              /\ r.source = None

C22_Witness ==
    \E p \in Procs :
        LET r == procs[p] IN
        /\ r.pc = "done"
        /\ r.exactSeen = "absent"
        /\ r.scanDone
        /\ r.upstream = "timeout"
        /\ r.upstreamCalls = 1
        /\ r.searchAttempts = 1

\* C23: a Search whose upstream attempt failed or timed out has written
\* nothing and has no response to write, so the entry of its key is as it was;
\* only a Search whose upstream attempt succeeded gets to the writes.
C23_OnlySuccessCached ==
    \A p \in Procs :
        LET r == procs[p] IN
        /\ r.upstream \in Failures
           => /\ r.pc = "done"
              /\ ~r.wrote
              /\ r.fresh = NoResponse
              /\ r.status # 200
        /\ (r.wrote \/ r.pc \in {"setex", "hset", "expire"})
           => /\ r.upstream = "ok"
              /\ r.fresh # NoResponse
              /\ r.result = r.fresh

C23_Witness ==
    \E p \in Procs :
        LET r == procs[p] IN
        /\ r.pc = "done"
        /\ r.upstream = "backendError"
        /\ r.searchAttempts = 1
        /\ r.detailsAttempts = 1
        /\ ~r.wrote
        /\ ~Present(CacheKeyOf(r))
        /\ ~Present(MetaKey(CacheKeyOf(r)))

\* C24: the step at which a Search is answered from the cache, by the exact or
\* by the similarity lookup, leaves the whole store as it is (no entry of the
\* request's own key is written, no expiry is renewed, no embedding is added),
\* and the Search is finished with it, having written nothing.
C24_HitNoEffect ==
    [][\A p \in Procs :
          (procs[p].source = None /\ procs'[p].source \in {"exact", "similar"})
             => /\ redis' = redis
                /\ procs'[p].pc = "done"
                /\ ~procs'[p].wrote
                /\ procs'[p].upstreamCalls = 0]_vars

C24_Witness ==
    \E p \in Procs :
        LET r == procs[p] IN
        /\ r.pc = "done"
        /\ r.source = "similar"
        /\ r.similar_key # CacheKeyOf(r)
        /\ Present(r.similar_key)
        /\ ~Present(CacheKeyOf(r))
        /\ ~Present(MetaKey(CacheKeyOf(r)))

\* C25 as claimed: a Search answered by the similarity lookup with the entry
\* of the very same query text gets the entry of its own page token.
C25_Original ==
    \A p \in Procs :
        LET r == procs[p] IN
        (r.source = "similar" /\ QueryOf(r.similar_key) = Strip(Lower(r.q)))
           => r.similar_key[3][4] = (IF r.page_token = None THEN ""
                                     ELSE r.page_token)

\* C26 as claimed: a Search is answered only from entries of its own category:
\* the similarity lookup of a general Search finds no educational entry and
\* that of an educational Search no general one.
C26_Original ==
    \A p \in Procs :
        LET r == procs[p] IN
        r.source = "similar"
           => r.similar_key[2] = (IF r.is_educational THEN "edu" ELSE "search")

\* C27: when two Searches of the same key both missed, both fetched and both
\* wrote, the entry is the complete response of the one whose write came last,
\* with the expiry of the category, and the embedding of the key is the
\* embedding of the query with that expiry: never a mixture of the two.
C27_LastWriterWins ==
    \A p1, p2 \in Procs :
        LET r1 == procs[p1]
            r2 == procs[p2]
            key == CacheKeyOf(r1)
        IN (/\ p1 # p2
            /\ r1.pc = "done" /\ r2.pc = "done"
            /\ r1.wrote /\ r2.wrote
            /\ r1.faultAt = None /\ r2.faultAt = None
            /\ CacheKeyOf(r2) = key
            /\ r1.lastWriter)
           => /\ ~r2.lastWriter
              /\ redis[key] = [type |-> "string",
                               data |-> model_dump_json(r1.fresh),
                               ttl |-> TtlOf(r1.is_educational)]
              /\ redis[MetaKey(key)] = [type |-> "hash",
                                        query |-> Strip(Lower(r1.q)),
                                        embedding |-> encode(r1.q),
                                        ttl |-> TtlOf(r1.is_educational)]

C27_Witness ==
    \E p1, p2 \in Procs :
        /\ p1 # p2
        /\ procs[p1].pc = "done" /\ procs[p2].pc = "done"
        /\ procs[p1].wrote /\ procs[p2].wrote
        /\ CacheKeyOf(procs[p1]) = CacheKeyOf(procs[p2])
        /\ procs[p1].lastWriter
        /\ procs[p1].fresh # procs[p2].fresh
        /\ redis[CacheKeyOf(procs[p1])].data = model_dump_json(procs[p1].fresh)

\* C28: the embedding the similarity lookup picks has the highest score of all
\* it read, and among those with that score it is the one read first.
C28_TieBreak ==
    \A p \in Procs :
        LET r == procs[p] IN
        (r.scanDone /\ r.similar_key # NoKey)
           => \E e \in r.scanned :
                /\ e[1] = MetaKey(r.similar_key)
                /\ \A f \in r.scanned :
                     /\ f[2] <= e[2]
                     /\ f[2] = e[2] => e[3] <= f[3]

C28_Witness ==
    \E p \in Procs :
        LET r == procs[p] IN
        /\ r.scanDone
        /\ r.similar_key # NoKey
        /\ \E e, f \in r.scanned :
             /\ e[1] = MetaKey(r.similar_key)
             /\ f[1] # e[1]
             /\ f[2] = e[2]
             /\ e[3] < f[3]

\* C29: a redis failure while the embeddings are read makes the similarity
\* lookup find nothing, and the Search goes to the YouTube API once and, when
\* that succeeds, answers 200 with the fresh response; a redis failure while
\* the entry or its embedding is written is swallowed, and the Search answers
\* 200 with the fresh response.
C29_EmbeddingFaultsDegrade ==
    \A p \in Procs :
        LET r == procs[p] IN
        /\ r.faultAt \in {"keys", "hgetall"}
           => /\ r.source # "similar"
              /\ r.similar_key = NoKey
              /\ InUpstream(r) \/ r.pc = "done"
              /\ r.pc = "done"
                 => /\ r.upstreamCalls = 1
                    /\ r.upstream = "ok"
                       => /\ r.status = 200
                          /\ r.source = "upstream"
                          /\ r.result = r.fresh
        /\ r.faultAt \in {"setex", "hset", "expire"}
           => /\ r.pc = "done"
              /\ r.status = 200
              /\ r.source = "upstream"
              /\ r.fresh # NoResponse
              /\ r.result = r.fresh

C29_Witness ==
    \E p \in Procs :
        LET r == procs[p] IN
        /\ r.pc = "done"
        /\ r.faultAt = "hgetall"
        /\ r.scanned # {}
        /\ r.upstream = "ok"
        /\ r.status = 200
        /\ r.result = r.fresh
        /\ Present(MetaKey(CacheKeyOf(r)))

\* C30 as claimed: a call of process_sync_queue, whatever lies in the queue and
\* with nobody adding to it meanwhile, gets to the empty-queue exit and returns
\* its results.
C30_Original == (sync.pc = "rpop") ~> (sync.pc = "returned")
====
